---- MODULE Spec2Model ----
(***************************************************************************)
(* json-to-variant: the ingestion-and-batching pipeline of                 *)
(* src/json_bench/json_to_variant/src/main.rs.                             *)
(*                                                                         *)
(* A run is main(): the sorted list of sources is processed file by file,  *)
(* each file as SINGLE (one row) or NDJSON (one row per non-blank line),   *)
(* every row is pushed into the VariantBatchWriter, which flushes batches  *)
(* by cumulative byte size into a lazily opened parquet writer, and        *)
(* finish() drains and closes it.                                          *)
(*                                                                         *)
(* Text is a sequence of one-character strings over Alphabet.  File        *)
(* contents, read failures and the failures of the output file are inputs  *)
(* of the environment, drawn when the code reaches them.                   *)
(***************************************************************************)
EXTENDS Integers, Sequences, FiniteSets, TLC

(***************************************************************************)
(* Bounds of the model                                                     *)
(***************************************************************************)
\* at most this many sources in a run
MaxFiles == 2
\* at most this many characters in one file
MaxContentLen == 3
\* at most this many characters read in a whole run
MaxTotalBytes == 4
\* --batch-bytes ranges over 0..MaxBatchBytes
MaxBatchBytes == 3

VARIABLES
    pc,           \* position in main
    input,        \* cli.input: what the file system holds at that path
    recursive,    \* cli.recursive
    sources,      \* main: the list returned by collect_sources
    format,       \* cli.format
    batch_bytes,  \* cli.batch_bytes
    idx,          \* main: index of the next source of the for loop
    reader,       \* process_ndjson_file: the unread rest of the file
    saw_row,      \* process_ndjson_file: saw_row
    writer,       \* main: the VariantBatchWriter
    output,       \* the file at cli.output
    written,      \* main: the value returned by finish()
    err,          \* the error main returns, "none" while there is none
    inputs,       \* the files read so far: the format and the rows of each
    bytes_read,   \* the number of characters of the files read so far
    log           \* the calls made on the accumulator and its collaborators

vars == <<pc, input, recursive, sources, format, batch_bytes, idx, reader, saw_row, writer,
          output, written, err, inputs, bytes_read, log>>

(***************************************************************************)
(* Text                                                                    *)
(***************************************************************************)
Alphabet == {" ", "\n", "1"}

Whitespace == {" ", "\n"}

Contents == UNION {[1..n -> Alphabet] : n \in 0..MaxContentLen}

Max(a, b) == IF a >= b THEN a ELSE b

\* str::trim: drop leading and trailing whitespace
RECURSIVE TrimStart(_)
TrimStart(s) ==
    IF s = <<>> THEN <<>>
    ELSE IF Head(s) \in Whitespace THEN TrimStart(Tail(s))
    ELSE s

RECURSIVE TrimEnd(_)
TrimEnd(s) ==
    IF s = <<>> THEN <<>>
    ELSE IF s[Len(s)] \in Whitespace THEN TrimEnd(SubSeq(s, 1, Len(s) - 1))
    ELSE s

trim(s) == TrimEnd(TrimStart(s))

\* BufRead::lines: the position of the first newline of s, 0 if there is none
RECURSIVE NewlineAt(_, _)
NewlineAt(s, i) ==
    IF i > Len(s) THEN 0
    ELSE IF s[i] = "\n" THEN i
    ELSE NewlineAt(s, i + 1)

\* the next line of the reader, without its newline
NextLine(s) ==
    LET k == NewlineAt(s, 1)
    IN IF k = 0 THEN s ELSE SubSeq(s, 1, k - 1)

\* what the reader holds after that line
AfterLine(s) ==
    LET k == NewlineAt(s, 1)
    IN IF k = 0 THEN <<>> ELSE SubSeq(s, k + 1, Len(s))

(***************************************************************************)
(* Format detection                                                        *)
(***************************************************************************)
\* the characters of file names, in the order of their ASCII codes
Ascii ==
    <<".",
      "A", "B", "C", "D", "E", "F", "G", "H", "I", "J", "K", "L", "M", "N", "O", "P", "Q", "R", "S", "T", "U", "V", "W", "X", "Y", "Z",
      "a", "b", "c", "d", "e", "f", "g", "h", "i", "j", "k", "l", "m", "n", "o", "p", "q", "r", "s", "t", "u", "v", "w", "x", "y", "z">>

Code(c) == CHOOSE i \in 1..Len(Ascii) : Ascii[i] = c

\* u8::to_ascii_lowercase: the upper-case letters are at 2..27 of Ascii
LowerChar(c) == IF Code(c) \in 2..27 THEN Ascii[Code(c) + 26] ELSE c

\* mutant: the extension is compared as it is spelled
to_ascii_lowercase_same(e) == e

\* str::to_ascii_lowercase
to_ascii_lowercase(e) == [i \in 1..Len(e) |-> LowerChar(e[i])]

\* a path is the sequence of its components under the input root; a
\* component is a sequence of characters
file_name(path) == path[Len(path)]

\* Option<&str>
None == [some |-> FALSE, ext |-> <<>>]

Some(e) == [some |-> TRUE, ext |-> e]

\* Path::extension: the part of the file name after its last dot, if that
\* dot is not the first character of the name
extension(path) ==
    LET name == file_name(path)
        dots == {i \in 1..Len(name) : name[i] = "."}
        k    == IF dots = {} THEN 0 ELSE CHOOSE i \in dots : \A j \in dots : j <= i
    IN IF k <= 1 THEN None ELSE Some(SubSeq(name, k + 1, Len(name)))

has_ndjson_hint(path) ==
    LET e == extension(path)
    IN IF e.some
       THEN to_ascii_lowercase(e.ext) \in
               {<<"j", "s", "o", "n", "l">>,
                <<"n", "d", "j", "s", "o", "n">>,
                <<"j", "s", "o", "n", "l", "i", "n", "e", "s">>}
       ELSE FALSE

looks_like_json(path) ==
    LET e == extension(path)
    IN IF e.some
       THEN to_ascii_lowercase(e.ext) \in
               {<<"j", "s", "o", "n">>,
                <<"j", "s", "o", "n", "l">>,
                <<"n", "d", "j", "s", "o", "n">>,
                <<"j", "s", "o", "n", "s">>,
                <<"j", "s", "o", "n", "l", "i", "n", "e", "s">>}
       ELSE TRUE

infer_file_format(path) ==
    IF has_ndjson_hint(path) THEN "Ndjson" ELSE "Single"

\* process_source: the format a file is read as
FileFormat(path, requested) ==
    IF requested = "Auto" THEN infer_file_format(path)
    ELSE IF requested = "Ndjson" THEN "Ndjson"
    ELSE "Single"

(***************************************************************************)
(* Source Enumerator                                                       *)
(***************************************************************************)
\* the file names of the model
a_json == <<"a", ".", "j", "s", "o", "n">>
b_jsonl == <<"b", ".", "j", "s", "o", "n", "l">>
c_txt == <<"c", ".", "t", "x", "t">>
d_noext == <<"d">>
B_JSON == <<"B", ".", "J", "S", "O", "N">>
s_json == <<"s", ".", "j", "s", "o", "n">>
e_ndjson == <<"e", ".", "n", "d", "j", "s", "o", "n">>
c_json == <<"c", ".", "j", "s", "o", "n">>
s_dir == <<"s">>
B_JSONL == <<"B", ".", "J", "S", "O", "N", "L">>
n_NdJson == <<"n", ".", "N", "d", "J", "s", "o", "n">>
l_jsonlines == <<"l", ".", "j", "s", "o", "n", "l", "i", "n", "e", "s">>
dot_jsonl == <<".", "j", "s", "o", "n", "l">>
j_jsons == <<"j", ".", "j", "s", "o", "n", "s">>
x_jsonl_bak == <<"x", ".", "j", "s", "o", "n", "l", ".", "b", "a", "k">>

\* an entry of the directory tree under the input root
File(path) == [path |-> path, type |-> "file"]

Dir(path) == [path |-> path, type |-> "dir"]

\* cli.input: a regular file, a directory and all that is under it, or
\* neither
FileRoot(name) == [kind |-> "file", path |-> <<name>>, entries |-> {}]

DirRoot(entries) == [kind |-> "dir", path |-> <<>>, entries |-> entries]

NoRoot == [kind |-> "none", path |-> <<>>, entries |-> {}]

\* the directories of the runs of the whole pipeline: a.json and b.jsonl in
\* the root, c.json in the subdirectory s
PipelineTrees ==
    {DirRoot(fs \cup sub) :
        fs \in SUBSET {File(<<a_json>>), File(<<b_jsonl>>)},
        sub \in {{}, {Dir(<<s_dir>>), File(<<s_dir, c_json>>)}}}

\* the directories of the runs of the enumerator: five files in the root,
\* and a subdirectory named s.json, absent, empty or with e.ndjson in it
EnumTrees ==
    {DirRoot(fs \cup sub) :
        fs \in SUBSET {File(<<a_json>>), File(<<b_jsonl>>), File(<<c_txt>>),
                       File(<<d_noext>>), File(<<B_JSON>>)},
        sub \in {{}, {Dir(<<s_json>>)},
                 {Dir(<<s_json>>), File(<<s_json, e_ndjson>>)}}}

\* the names of the single files given as input to the runs of the format
\* detector
FormatNames ==
    {a_json, b_jsonl, B_JSONL, n_NdJson, l_jsonlines, e_ndjson, c_txt,
     d_noext, dot_jsonl, j_jsons, x_jsonl_bak}

\* Ord for str: byte by byte, a proper prefix first
RECURSIVE NameLess(_, _)
NameLess(a, b) ==
    IF b = <<>> THEN FALSE
    ELSE IF a = <<>> THEN TRUE
    ELSE IF Head(a) # Head(b) THEN Code(Head(a)) < Code(Head(b))
    ELSE NameLess(Tail(a), Tail(b))

\* Ord for Path: component by component
RECURSIVE PathLess(_, _)
PathLess(p, q) ==
    IF q = <<>> THEN FALSE
    ELSE IF p = <<>> THEN TRUE
    ELSE IF Head(p) # Head(q) THEN NameLess(Head(p), Head(q))
    ELSE PathLess(Tail(p), Tail(q))

\* slice::sort: p put in its place in the sorted sequence s
RECURSIVE Insert(_, _)
Insert(p, s) ==
    IF s = <<>> THEN <<p>>
    ELSE IF PathLess(p, Head(s)) THEN <<p>> \o s
    ELSE <<Head(s)>> \o Insert(p, Tail(s))

\* mutant: the files are left in the order of the listing
sort_not(files) == files

RECURSIVE sort(_)
sort(files) ==
    IF files = <<>> THEN <<>> ELSE Insert(Head(files), sort(Tail(files)))

\* the entries WalkDir (recursive) or fs::read_dir yields for the root
Listed(root, rec) ==
    {e \in root.entries : rec \/ Len(e.path) = 1}

\* the orders in which the entries of S can be yielded
RECURSIVE Orders(_)
Orders(S) ==
    IF S = {} THEN {<<>>}
    ELSE UNION {{<<e>> \o o : o \in Orders(S \ {e})} : e \in S}

\* collect_sources: the loop over the entries, in the order they are yielded
RECURSIVE Pushes(_)
Pushes(listing) ==
    IF listing = <<>> THEN <<>>
    ELSE LET entry == Head(listing)
         IN (IF entry.type = "file" /\ looks_like_json(entry.path)
             THEN <<entry.path>> ELSE <<>>) \o Pushes(Tail(listing))

\* collect_sources on a directory whose entries are yielded as listing
collect_sources(listing) == sort(Pushes(listing))

(***************************************************************************)
(* The Value Encoder and the record batch                                  *)
(***************************************************************************)
\* a row is valid JSON text when it is a number: digits only (a row with
\* whitespace inside, such as "1 1", is two documents and is rejected)
ValidJson(row) == row # <<>> /\ \A i \in 1..Len(row) : row[i] = "1"

\* the variant of a JSON number: its value
RECURSIVE Variant(_)
Variant(row) ==
    IF row = <<>> THEN 0 ELSE 10 * Variant(SubSeq(row, 1, Len(row) - 1)) + 1

\* json_to_variant fails when some row is not valid JSON
ConvertOk(rows) == \A i \in 1..Len(rows) : ValidJson(rows[i])

\* the schema of a converted batch: the one field "data"
DataSchema == <<[name |-> "data", type |-> "Variant"]>>

build_batch(rows) ==
    [schema |-> DataSchema,
     column |-> [i \in 1..Len(rows) |-> Variant(rows[i])]]

num_rows(batch) == Len(batch.column)

(***************************************************************************)
(* VariantBatchWriter                                                      *)
(***************************************************************************)
\* Option<ArrowWriter<File>>
NoWriter == [some |-> FALSE, schema |-> <<>>]

\* mutant: the writer is opened without the schema of the batch
SomeWriterNoSchema(schema) == [some |-> TRUE, schema |-> <<>>]

SomeWriter(schema) == [some |-> TRUE, schema |-> schema]

\* the output path before the run: no file
NoFile == [exists |-> FALSE, batches |-> <<>>, footer |-> FALSE]

\* the output path before the run: a parquet file of an earlier run
OldFile ==
    [exists |-> TRUE, batches |-> <<build_batch(<<<<"1">>>>)>>, footer |-> TRUE]

\* an entry of the log: a call and the rows it was made with
Ev(op, rows) == [op |-> op, rows |-> rows]

\* the outcome of a call on the accumulator
R(w, o, l, res) == [w |-> w, o |-> o, l |-> l, res |-> res]

\* the points where the output file can fail in one flush
FlushFailures == {"none", "create", "init", "write"}

\* mutant: the smallest threshold is two bytes
new_min_two(target_bytes) ==
    [target_bytes  |-> Max(target_bytes, 2),
     pending_rows  |-> <<>>,
     pending_bytes |-> 0,
     writer        |-> NoWriter,
     total_rows    |-> 0]

new(target_bytes) ==
    [target_bytes  |-> Max(target_bytes, 1),
     pending_rows  |-> <<>>,
     pending_bytes |-> 0,
     writer        |-> NoWriter,
     total_rows    |-> 0]

\* mutant: the run total counts batches instead of rows
WriteBatchCountsOne(w, o, l, batch, fail) ==
    IF fail = "write"
    THEN R(w, o, l, "WriteFailure")
    ELSE R([w EXCEPT !.total_rows = @ + 1],
           [o EXCEPT !.batches = Append(@, batch)],
           Append(l, Ev("write", batch.column)),
           "Ok")

\* mutant: the batch is counted before it is written
WriteBatchCountsFirst(w, o, l, batch, fail) ==
    LET w1 == [w EXCEPT !.total_rows = @ + num_rows(batch)]
    IN IF fail = "write"
       THEN R(w1, o, l, "WriteFailure")
       ELSE R(w1,
              [o EXCEPT !.batches = Append(@, batch)],
              Append(l, Ev("write", batch.column)),
              "Ok")

\* flush, from the point where the batch is converted and the writer exists
WriteBatch(w, o, l, batch, fail) ==
    IF fail = "write"
    THEN R(w, o, l, "WriteFailure")
    ELSE R([w EXCEPT !.total_rows = @ + num_rows(batch)],
           [o EXCEPT !.batches = Append(@, batch)],
           Append(l, Ev("write", batch.column)),
           "Ok")

\* mutant: every flush creates the file and opens a writer
OpenAndWriteAlways(w, o, l, batch, fail) ==
    IF fail = "create"
    THEN R(w, o, l, "CreateFailure")
    ELSE LET o1 == [exists |-> TRUE, batches |-> <<>>, footer |-> FALSE]
             l1 == Append(l, Ev("create", <<>>))
         IN IF fail = "init"
            THEN R(w, o1, l1, "WriterInitFailure")
            ELSE WriteBatch([w EXCEPT !.writer = SomeWriter(batch.schema)],
                            o1, Append(l1, Ev("open", <<>>)), batch, fail)

\* flush, from the point where the batch is converted
OpenAndWrite(w, o, l, batch, fail) ==
    IF ~w.writer.some
    THEN IF fail = "create"
         THEN R(w, o, l, "CreateFailure")
         ELSE LET o1 == [exists |-> TRUE, batches |-> <<>>, footer |-> FALSE]
                  l1 == Append(l, Ev("create", <<>>))
              IN IF fail = "init"
                 THEN R(w, o1, l1, "WriterInitFailure")
                 ELSE WriteBatch([w EXCEPT !.writer = SomeWriter(batch.schema)],
                                 o1, Append(l1, Ev("open", <<>>)), batch, fail)
    ELSE WriteBatch(w, o, l, batch, fail)

\* mutant: an empty buffer is flushed like any other
flush_empty_too(w, o, l, fail) ==
    LET rows == w.pending_rows
        w1   == [w EXCEPT !.pending_rows = <<>>]
        l1   == Append(Append(l, Ev("flush", rows)), Ev("encode", rows))
    IN IF ~ConvertOk(rows)
       THEN R(w1, o, l1, "EncodingFailure")
       ELSE OpenAndWrite([w1 EXCEPT !.pending_bytes = 0], o, l1,
                         build_batch(rows), fail)

\* mutant: the output file is created before the batch is converted
flush_create_first(w, o, l, fail) ==
    LET l0 == Append(l, Ev("flush", w.pending_rows))
    IN IF w.pending_rows = <<>>
       THEN R(w, o, l0, "Ok")
       ELSE IF w.writer.some
       THEN flush_empty_too(w, o, l, fail)
       ELSE IF fail = "create"
       THEN R([w EXCEPT !.pending_rows = <<>>], o, l0, "CreateFailure")
       ELSE LET rows == w.pending_rows
                w1   == [w EXCEPT !.pending_rows = <<>>]
                o1   == [exists |-> TRUE, batches |-> <<>>, footer |-> FALSE]
                l1   == Append(Append(l0, Ev("create", <<>>)), Ev("encode", rows))
            IN IF ~ConvertOk(rows)
               THEN R(w1, o1, l1, "EncodingFailure")
               ELSE IF fail = "init"
               THEN R([w1 EXCEPT !.pending_bytes = 0], o1, l1, "WriterInitFailure")
               ELSE WriteBatch([w1 EXCEPT !.pending_bytes = 0,
                                          !.writer = SomeWriter(DataSchema)],
                               o1, Append(l1, Ev("open", <<>>)),
                               build_batch(rows), fail)

flush(w, o, l, fail) ==
    LET l0 == Append(l, Ev("flush", w.pending_rows))
    IN IF w.pending_rows = <<>>
       THEN R(w, o, l0, "Ok")
       ELSE LET rows == w.pending_rows
                w1   == [w EXCEPT !.pending_rows = <<>>]
                l1   == Append(l0, Ev("encode", rows))
            IN IF ~ConvertOk(rows)
               THEN R(w1, o, l1, "EncodingFailure")
               ELSE OpenAndWrite([w1 EXCEPT !.pending_bytes = 0], o, l1,
                                 build_batch(rows), fail)

\* mutant: the flush waits until the threshold is exceeded
push_row_gt(w, o, l, row, fail) ==
    LET w1 == [w EXCEPT !.pending_bytes = @ + Len(row),
                        !.pending_rows = Append(@, row)]
        l1 == Append(l, Ev("push", <<row>>))
    IN IF w1.pending_bytes > w1.target_bytes
       THEN flush(w1, o, l1, fail)
       ELSE R(w1, o, l1, "Ok")

\* mutant: the pushed row goes to the front of the buffer
push_row_front(w, o, l, row, fail) ==
    LET w1 == [w EXCEPT !.pending_bytes = @ + Len(row),
                        !.pending_rows = <<row>> \o @]
        l1 == Append(l, Ev("push", <<row>>))
    IN IF w1.pending_bytes >= w1.target_bytes
       THEN flush(w1, o, l1, fail)
       ELSE R(w1, o, l1, "Ok")

push_row(w, o, l, row, fail) ==
    LET w1 == [w EXCEPT !.pending_bytes = @ + Len(row),
                        !.pending_rows = Append(@, row)]
        l1 == Append(l, Ev("push", <<row>>))
    IN IF w1.pending_bytes >= w1.target_bytes
       THEN flush(w1, o, l1, fail)
       ELSE R(w1, o, l1, "Ok")

\* mutant: finish() closes without draining the buffer
finish_no_flush(w, o, l, fail, closeOk) ==
    LET l0 == Append(l, Ev("finish", <<>>))
    IN IF w.writer.some
       THEN R([w EXCEPT !.writer = NoWriter],
              IF closeOk THEN [o EXCEPT !.footer = TRUE] ELSE o,
              Append(l0, Ev("close", <<>>)),
              IF closeOk THEN "Ok" ELSE "CloseFailure")
       ELSE R(w, o, l0, "Ok")

\* mutant: finish() drains the buffer and drops the writer unclosed
finish_no_close(w, o, l, fail, closeOk) ==
    LET f == flush(w, o, Append(l, Ev("finish", <<>>)), fail)
    IN IF f.res # "Ok" THEN f
       ELSE R([f.w EXCEPT !.writer = NoWriter], f.o, f.l, "Ok")

finish(w, o, l, fail, closeOk) ==
    LET f == flush(w, o, Append(l, Ev("finish", <<>>)), fail)
    IN IF f.res # "Ok" THEN f
       ELSE IF f.w.writer.some
       THEN R([f.w EXCEPT !.writer = NoWriter],
              IF closeOk THEN [f.o EXCEPT !.footer = TRUE] ELSE f.o,
              Append(f.l, Ev("close", <<>>)),
              IF closeOk THEN "Ok" ELSE "CloseFailure")
       ELSE f

(***************************************************************************)
(* main                                                                    *)
(***************************************************************************)
\* the contents the next file can have
NextContents == {c \in Contents : Len(c) + bytes_read <= MaxTotalBytes}

\* the non-whitespace characters of c at or after i, up to the next newline
RowChars(c, i) ==
    {j \in i..Len(c) : c[j] \notin Whitespace
                       /\ \A k \in i..j : c[k] # "\n"}

\* a line has a row when some character of it is not whitespace; the row
\* starts at the first such character
IsRowStart(c, i) ==
    /\ c[i] \notin Whitespace
    /\ \A j \in 1..(i - 1) :
          c[j] \notin Whitespace => \E k \in j..(i - 1) : c[k] = "\n"

SetMax(S) == CHOOSE x \in S : \A y \in S : y <= x

SetMin(S) == CHOOSE x \in S : \A y \in S : x <= y

\* the rows an NDJSON file holds: its non-blank lines, each without the
\* whitespace around it, in file order
RECURSIVE NdjsonRows(_, _)
NdjsonRows(c, i) ==
    IF i > Len(c) THEN <<>>
    ELSE IF IsRowStart(c, i)
    THEN <<SubSeq(c, i, SetMax(RowChars(c, i)))>> \o NdjsonRows(c, i + 1)
    ELSE NdjsonRows(c, i + 1)

\* the rows a single-document file holds: none when it is all whitespace,
\* else its text from the first to the last non-whitespace character
SingleRows(c) ==
    LET S == {i \in 1..Len(c) : c[i] \notin Whitespace}
    IN IF S = {} THEN <<>> ELSE <<SubSeq(c, SetMin(S), SetMax(S))>>

\* what is recorded of a file that was read
Input(fmt, c) ==
    [format |-> fmt,
     rows   |-> IF fmt = "Ndjson" THEN NdjsonRows(c, 1) ELSE SingleRows(c)]

Fail(e) ==
    /\ pc' = "failed"
    /\ err' = e

\* the state in which main starts: the command line, the file system at
\* the input path (root) and the file at the output path (file)
InitWith(roots, formats, sizes, file) ==
    /\ pc = "collect"
    /\ input \in roots
    /\ recursive \in BOOLEAN
    /\ sources = <<>>
    /\ format \in formats
    /\ batch_bytes \in sizes
    /\ idx = 1
    /\ reader = <<>>
    /\ saw_row = FALSE
    /\ writer = new(batch_bytes)
    /\ output = file
    /\ written = 0
    /\ err = "none"
    /\ inputs = <<>>
    /\ bytes_read = 0
    /\ log = <<>>

InputFormat == {"Auto", "Ndjson", "Single"}

\* the directories of at most MaxFiles files
PipelineRoots ==
    {t \in PipelineTrees :
        Cardinality({e \in t.entries : e.type = "file"}) <= MaxFiles}

Init == InitWith(PipelineRoots, InputFormat, 0..MaxBatchBytes, NoFile)

\* main: collect_sources
CollectSources ==
    /\ pc = "collect"
    /\ IF input.kind = "file"
       THEN /\ sources' = <<input.path>>
            /\ pc' = "main"
            /\ err' = err
       ELSE IF input.kind # "dir"
       THEN /\ Fail("NotFileOrDirectory")
            /\ sources' = sources
       ELSE \E walkOk \in BOOLEAN, listing \in Orders(Listed(input, recursive)) :
               IF ~walkOk
               THEN /\ Fail("IoFailure")
                    /\ sources' = sources
               ELSE /\ sources' = collect_sources(listing)
                    /\ pc' = "main"
                    /\ err' = err
    /\ UNCHANGED <<input, recursive, format, batch_bytes, idx, reader, saw_row,
                   writer, output, written, inputs, bytes_read, log>>

\* main: no sources is fatal, otherwise the writer is built and the loop starts
Start ==
    /\ pc = "main"
    /\ IF sources = <<>>
       THEN Fail("NoSourcesFound")
       ELSE /\ pc' = "sources"
            /\ err' = err
    /\ writer' = new(batch_bytes)
    /\ UNCHANGED <<input, recursive, sources, format, batch_bytes, idx, reader, saw_row,
                   output, written, inputs, bytes_read, log>>

\* process_source of a file read as SINGLE: process_single_json
ProcessSingle ==
    /\ pc = "sources"
    /\ idx <= Len(sources)
    /\ FileFormat(sources[idx], format) = "Single"
    /\ \E readOk \in BOOLEAN, contents \in NextContents, fail \in FlushFailures :
          IF ~readOk
          THEN /\ Fail("IoFailure")
               /\ UNCHANGED <<idx, writer, output, inputs, bytes_read, log>>
          ELSE LET trimmed == trim(contents)
                   r == IF trimmed = <<>>
                        THEN R(writer, output, log, "Ok")
                        ELSE push_row(writer, output, log, trimmed, fail)
               IN /\ inputs' = Append(inputs, Input("Single", contents))
                  /\ bytes_read' = bytes_read + Len(contents)
                  /\ writer' = r.w
                  /\ output' = r.o
                  /\ log' = r.l
                  /\ IF r.res = "Ok"
                     THEN /\ idx' = idx + 1
                          /\ UNCHANGED <<pc, err>>
                     ELSE /\ Fail(r.res)
                          /\ idx' = idx
    /\ UNCHANGED <<input, recursive, sources, format, batch_bytes, reader, saw_row, written>>

\* process_source of a file read as NDJSON: process_ndjson_file opens the file
OpenNdjson ==
    /\ pc = "sources"
    /\ idx <= Len(sources)
    /\ FileFormat(sources[idx], format) = "Ndjson"
    /\ \E openOk \in BOOLEAN, contents \in NextContents :
          IF ~openOk
          THEN /\ Fail("IoFailure")
               /\ UNCHANGED <<reader, saw_row, inputs, bytes_read>>
          ELSE /\ pc' = "lines"
               /\ reader' = contents
               /\ saw_row' = FALSE
               /\ inputs' = Append(inputs, Input("Ndjson", contents))
               /\ bytes_read' = bytes_read + Len(contents)
               /\ err' = err
    /\ UNCHANGED <<input, recursive, sources, format, batch_bytes, idx, writer, output, written, log>>

\* mutant: the result of push_row is dropped and the loop goes on
ReadLineIgnoresResult ==
    /\ pc = "lines"
    /\ reader # <<>>
    /\ \E readOk \in BOOLEAN, fail \in FlushFailures :
          IF ~readOk
          THEN /\ Fail("IoFailure")
               /\ UNCHANGED <<reader, saw_row, writer, output, log>>
          ELSE LET entry == trim(NextLine(reader))
               IN /\ reader' = AfterLine(reader)
                  /\ UNCHANGED <<pc, err>>
                  /\ IF entry = <<>>
                     THEN UNCHANGED <<saw_row, writer, output, log>>
                     ELSE LET r == push_row(writer, output, log, entry, fail)
                          IN /\ saw_row' = TRUE
                             /\ writer' = r.w
                             /\ output' = r.o
                             /\ log' = r.l
    /\ UNCHANGED <<input, recursive, sources, format, batch_bytes, idx, written, inputs, bytes_read>>

\* process_ndjson_file: one turn of the loop over reader.lines()
ReadLine ==
    /\ pc = "lines"
    /\ reader # <<>>
    /\ \E readOk \in BOOLEAN, fail \in FlushFailures :
          IF ~readOk
          THEN /\ Fail("IoFailure")
               /\ UNCHANGED <<reader, saw_row, writer, output, log>>
          ELSE LET entry == trim(NextLine(reader))
               IN /\ reader' = AfterLine(reader)
                  /\ IF entry = <<>>
                     THEN UNCHANGED <<pc, err, saw_row, writer, output, log>>
                     ELSE LET r == push_row(writer, output, log, entry, fail)
                          IN /\ saw_row' = TRUE
                             /\ writer' = r.w
                             /\ output' = r.o
                             /\ log' = r.l
                             /\ IF r.res = "Ok"
                                THEN UNCHANGED <<pc, err>>
                                ELSE Fail(r.res)
    /\ UNCHANGED <<input, recursive, sources, format, batch_bytes, idx, written, inputs, bytes_read>>

\* mutant: an NDJSON file without rows is passed like an empty document
EndOfFileSkips ==
    /\ pc = "lines"
    /\ reader = <<>>
    /\ pc' = "sources"
    /\ idx' = idx + 1
    /\ err' = err
    /\ UNCHANGED <<input, recursive, sources, format, batch_bytes, reader, saw_row, writer,
                   output, written, inputs, bytes_read, log>>

\* process_ndjson_file: the lines are exhausted
EndOfFile ==
    /\ pc = "lines"
    /\ reader = <<>>
    /\ IF ~saw_row
       THEN /\ Fail("EmptyNdjsonFile")
            /\ idx' = idx
       ELSE /\ pc' = "sources"
            /\ idx' = idx + 1
            /\ err' = err
    /\ UNCHANGED <<input, recursive, sources, format, batch_bytes, reader, saw_row, writer,
                   output, written, inputs, bytes_read, log>>

\* mutant: a run of zero rows is reported as a success
FinishAcceptsZero ==
    /\ pc = "sources"
    /\ idx > Len(sources)
    /\ \E fail \in FlushFailures, closeOk \in BOOLEAN :
          LET r == finish(writer, output, log, fail, closeOk)
          IN /\ writer' = r.w
             /\ output' = r.o
             /\ log' = r.l
             /\ IF r.res # "Ok"
                THEN /\ Fail(r.res)
                     /\ written' = written
                ELSE /\ written' = r.w.total_rows
                     /\ pc' = "done"
                     /\ err' = err
    /\ UNCHANGED <<input, recursive, sources, format, batch_bytes, idx, reader, saw_row, inputs,
                   bytes_read>>

\* main: after the loop, finish() and the report
Finish ==
    /\ pc = "sources"
    /\ idx > Len(sources)
    /\ \E fail \in FlushFailures, closeOk \in BOOLEAN :
          LET r == finish(writer, output, log, fail, closeOk)
          IN /\ writer' = r.w
             /\ output' = r.o
             /\ log' = r.l
             /\ IF r.res # "Ok"
                THEN /\ Fail(r.res)
                     /\ written' = written
                ELSE /\ written' = r.w.total_rows
                     /\ IF r.w.total_rows = 0
                        THEN Fail("NoRowsWritten")
                        ELSE /\ pc' = "done"
                             /\ err' = err
    /\ UNCHANGED <<input, recursive, sources, format, batch_bytes, idx, reader, saw_row, inputs,
                   bytes_read>>

Next ==
    \/ CollectSources
    \/ Start
    \/ ProcessSingle
    \/ OpenNdjson
    \/ ReadLine
    \/ EndOfFile
    \/ Finish

Spec == Init /\ [][Next]_vars

\* DEFAULT_BATCH_BYTES
DEFAULT_BATCH_BYTES == 100 * 1024 * 1024

\* the runs of the enumerator: collect_sources on a directory, a file or
\* neither
EnumRoots == EnumTrees \cup {FileRoot(c_txt), NoRoot}

InitEnum == InitWith(EnumRoots, {"Auto"}, {DEFAULT_BATCH_BYTES}, NoFile)

NextEnum == CollectSources

SpecEnum == InitEnum /\ [][NextEnum]_vars

\* the runs of the format detector: the pipeline on one file given as input
FormatRoots == {FileRoot(name) : name \in FormatNames}

InitFormat == InitWith(FormatRoots, InputFormat, {DEFAULT_BATCH_BYTES}, NoFile)

SpecFormat == InitFormat /\ [][Next]_vars

\* the runs of the pipeline over an output path that holds a file
InitExisting == InitWith(PipelineRoots, InputFormat, 0..MaxBatchBytes, OldFile)

SpecExisting == InitExisting /\ [][Next]_vars

(***************************************************************************)
(* Reading the log                                                         *)
(***************************************************************************)
\* the positions of the log where op was called
At(op) == {i \in 1..Len(log) : log[i].op = op}

Count(op) == Cardinality(At(op))

RECURSIVE Bytes(_)
Bytes(rows) == IF rows = <<>> THEN 0 ELSE Len(Head(rows)) + Bytes(Tail(rows))

RECURSIVE RowCount(_)
RowCount(fs) == IF fs = <<>> THEN 0 ELSE Len(Head(fs).rows) + RowCount(Tail(fs))

\* the rows pushed after the last flush before position i, up to position i
PushedSinceFlush(i) ==
    LET F == {j \in At("flush") : j < i}
        j == IF F = {} THEN 0 ELSE SetMax(F)
        P == SelectSeq(SubSeq(log, j + 1, i), LAMBDA e : e.op = "push")
    IN [k \in 1..Len(P) |-> P[k].rows[1]]

\* the flush called at position i wrote its batch
FlushWrote(i) ==
    \E j \in At("write") :
       /\ j > i
       /\ \A k \in (i + 1)..(j - 1) : log[k].op \in {"encode", "create", "open"}

FlushErrors ==
    {"EncodingFailure", "CreateFailure", "WriterInitFailure", "WriteFailure"}

(***************************************************************************)
(* Properties                                                              *)
(***************************************************************************)

\* C1: a run that completes without a fatal condition reports as rows
\* written exactly the number of non-blank lines of the files read as NDJSON
\* plus the number of non-empty files read as SINGLE, whatever the threshold.
RowCountExact ==
    pc = "done" =>
       /\ Len(inputs) = Len(sources)
       /\ written = RowCount(inputs)
       /\ written = writer.total_rows

\* a successful run over an NDJSON file and a single document, three rows,
\* written in more than one batch
RowCountExactWitness ==
    /\ pc = "done"
    /\ written = 3
    /\ \E i, j \in 1..Len(inputs) :
          inputs[i].format = "Ndjson" /\ inputs[j].format = "Single"
    /\ Len(output.batches) >= 2

\* C2: a push is followed by a flush exactly when the bytes of the rows
\* pushed since the last flush, the pushed row included, have reached the
\* threshold; that flush takes exactly those rows, and every flush comes
\* right after a push or at the start of finish.
FlushOnThreshold ==
    /\ \A i \in At("push") :
          LET rows    == PushedSinceFlush(i)
              flushed == i < Len(log) /\ log[i + 1].op = "flush"
          IN /\ flushed <=> Bytes(rows) >= Max(batch_bytes, 1)
             /\ flushed => log[i + 1].rows = rows
    /\ \A i \in At("flush") : i > 1 /\ log[i - 1].op \in {"push", "finish"}

\* threshold 3 and three rows of one byte: the first flush comes with the
\* third push and takes the three rows
FlushOnThresholdWitness ==
    /\ batch_bytes = 3
    /\ Len(log) >= 4
    /\ \A i \in 1..3 : log[i].op = "push" /\ Len(log[i].rows[1]) = 1
    /\ log[4].op = "flush"
    /\ Len(log[4].rows) = 3

\* C3: after a flush returns, with or without a failure, the pending buffer
\* is empty and the byte counter is zero.
FlushResetsBufferAndCounter ==
    (At("flush") # {} /\ \A i \in At("push") : i < SetMax(At("flush"))) =>
       /\ writer.pending_rows = <<>>
       /\ writer.pending_bytes = 0

\* C4: the writer is opened at most once in a run, inside the first flush of
\* a non-empty buffer, right after the batch is converted and the file is
\* created; it is open only if that happened.
OpenedOnceByFirstFlush ==
    /\ Count("open") <= 1
    /\ Count("create") <= 1
    /\ \A i \in At("open") :
          /\ i >= 4
          /\ log[i - 1].op = "create"
          /\ log[i - 2].op = "encode"
          /\ log[i - 3].op = "flush"
          /\ log[i - 3].rows # <<>>
          /\ \A j \in At("flush") : j < i - 3 => log[j].rows = <<>>
    /\ \A i \in At("write") : \E j \in At("open") : j < i
    /\ writer.writer.some => Count("open") = 1

\* two batches written through a writer opened once
OpenedOnceWitness ==
    /\ Count("write") >= 2
    /\ Count("open") = 1

\* C5: as long as no row was pushed, the output file does not exist and the
\* writer is unopened, finish() included.
NoRowsNoFile ==
    At("push") = {} =>
       /\ ~output.exists
       /\ ~writer.writer.some
       /\ At("create") = {} /\ At("open") = {} /\ At("close") = {}
       /\ At("encode") = {} /\ At("write") = {}

\* finish() has run over sources that were all empty single documents
NoRowsNoFileWitness ==
    /\ At("push") = {}
    /\ At("finish") # {}
    /\ Len(inputs) = 2
    /\ \A i \in 1..Len(inputs) : inputs[i].format = "Single"
    /\ err = "NoRowsWritten"

\* C6: while the writer is open its schema is the schema of the first
\* flushed batch, and the output file holds every batch written so far, in
\* order, each under that schema: no flush opened another writer.
SchemaFixed ==
    writer.writer.some =>
       LET first == log[SetMin({i \in At("flush") : log[i].rows # <<>>})].rows
       IN /\ writer.writer.schema = build_batch(first).schema
          /\ Len(output.batches) = Count("write")
          /\ \A k \in 1..Len(output.batches) :
                /\ output.batches[k].schema = writer.writer.schema
                /\ \E i \in At("write") :
                      /\ Cardinality({j \in At("write") : j <= i}) = k
                      /\ output.batches[k].column = log[i].rows

\* a second flush, of rows that differ from the first batch's, went through
\* the open writer
SchemaFixedWitness ==
    /\ writer.writer.some
    /\ Len(output.batches) >= 2
    /\ output.batches[1].column # output.batches[2].column

\* C7: finish() is called at most once and starts with a flush of the rows
\* still pending; when that flush succeeds the buffer is empty and the writer
\* is closed exactly if it was opened; the close comes at most once, inside
\* finish(), after every write, and nothing is pushed, flushed or written
\* after it; the value returned is the run total.
FinishDrainsThenCloses ==
    /\ Count("finish") <= 1
    /\ Count("close") <= 1
    /\ \A i \in At("finish") :
          /\ i < Len(log)
          /\ log[i + 1].op = "flush"
          /\ log[i + 1].rows = PushedSinceFlush(i)
          /\ \A j \in At("push") : j < i
    /\ \A i \in At("close") :
          /\ i = Len(log)
          /\ \E j \in At("finish") : j < i
          /\ At("open") # {}
    /\ (At("finish") # {} /\ err \notin FlushErrors) =>
          /\ writer.pending_rows = <<>>
          /\ ~writer.writer.some
          /\ At("close") # {} <=> At("open") # {}
    /\ pc = "done" => At("finish") # {} /\ written = writer.total_rows

\* finish() drained a remainder, wrote it and closed the writer
FinishDrainsWitness ==
    /\ pc = "done"
    /\ At("close") # {}
    /\ \E i \in At("finish") : log[i + 1].rows # <<>>
    /\ Count("write") >= 2

\* C8 as stated: at the end of every run in which the writer was opened, it
\* was closed exactly once and the output file has its footer.
OpenedIsAlwaysClosed ==
    (pc \in {"done", "failed"} /\ At("open") # {}) =>
       Count("close") = 1 /\ output.footer

\* C8, amended: a run that ends without a fatal condition opened the writer
\* once, closed it once as its last call and left the output file with its
\* footer; a run that a fatal condition aborted before the close never
\* closes the writer and leaves the file, if created, without footer.
ClosedOnSuccess ==
    /\ pc = "done" =>
          /\ Count("open") = 1
          /\ Count("close") = 1
          /\ log[Len(log)].op = "close"
          /\ output.exists /\ output.footer
    /\ (pc = "failed" /\ err # "CloseFailure") => At("close") = {}
    /\ pc # "done" => ~output.footer

\* a successful run of three rows in two batches, finalized
ClosedOnSuccessWitness ==
    /\ pc = "done"
    /\ output.footer
    /\ Len(output.batches) = 2
    /\ written = 3

\* C9: the run fails with EmptyNdjsonFile only on a file read as NDJSON that
\* holds no row, once all its lines are read, and no such file is ever
\* passed; a file read as SINGLE that holds no row is passed at once, with
\* no row pushed and no error.
EmptyFilePolicy ==
    /\ err = "EmptyNdjsonFile" =>
          /\ Len(inputs) = idx
          /\ inputs[idx].format = "Ndjson"
          /\ inputs[idx].rows = <<>>
          /\ reader = <<>>
    /\ \A i \in 1..Len(inputs) :
          /\ (inputs[i].format = "Ndjson" /\ i < idx) => inputs[i].rows # <<>>
          /\ (inputs[i].format = "Single" /\ inputs[i].rows = <<>>) => i < idx
    /\ Count("push") <= RowCount(inputs)

\* an empty single document was passed, and then an NDJSON file of blank
\* lines failed the run
EmptyFilePolicyWitness ==
    /\ err = "EmptyNdjsonFile"
    /\ Len(inputs) = 2
    /\ inputs[1] = [format |-> "Single", rows |-> <<>>]
    /\ bytes_read >= 2

\* a fatal condition was detected: an error was returned, or a flush of a
\* non-empty buffer did not get to write its batch
Fatal ==
    \/ err # "none"
    \/ \E i \in At("flush") : log[i].rows # <<>> /\ ~FlushWrote(i)

\* C10: a fatal condition ends the run where it is detected: the run is
\* failed, never done, and no step follows (no row, no file, no push, flush,
\* write or retry of the failed batch).
AbortOnFatal ==
    [][/\ Fatal => UNCHANGED vars
       /\ Fatal' => (pc' = "failed" /\ err' # "none")
       /\ pc' = "done" => err' = "none"]_vars

\* a flush failed while lines of the file and further files were left
AbortOnFatalWitness ==
    /\ pc = "failed"
    /\ err \in FlushErrors
    /\ reader # <<>>
    /\ idx < Len(sources)

\* the rows pushed, in the order of the pushes
RECURSIVE PushedIn(_)
PushedIn(l) ==
    IF l = <<>> THEN <<>>
    ELSE (IF Head(l).op = "push" THEN Head(l).rows ELSE <<>>) \o PushedIn(Tail(l))

Pushed == PushedIn(log)

\* the rows of the files read, file after file
RECURSIVE Flat(_)
Flat(fs) == IF fs = <<>> THEN <<>> ELSE Head(fs).rows \o Flat(Tail(fs))

\* the values the output file holds, batch after batch
RECURSIVE ValuesIn(_)
ValuesIn(bs) == IF bs = <<>> THEN <<>> ELSE Head(bs).column \o ValuesIn(Tail(bs))

Values(rows) == [i \in 1..Len(rows) |-> Variant(rows[i])]

IsPrefix(a, b) == Len(a) <= Len(b) /\ SubSeq(b, 1, Len(a)) = a

\* C11: NoRowsWritten is returned only once every source was processed and
\* finish() returned zero rows, and a run in which that happens returns it
\* and never succeeds; NoSourcesFound is returned only when there is no
\* source, before any file is read or any call made on the accumulator.
ZeroRowsReportedAfterFinish ==
    /\ err = "NoRowsWritten" =>
          /\ sources # <<>>
          /\ idx = Len(sources) + 1
          /\ Len(inputs) = Len(sources)
          /\ At("finish") # {}
          /\ written = 0 /\ writer.total_rows = 0
    /\ err = "NoSourcesFound" =>
          /\ sources = <<>>
          /\ inputs = <<>>
          /\ log = <<>>
    /\ pc = "done" => written > 0
    /\ (At("finish") # {} /\ writer.total_rows = 0 /\ err \notin FlushErrors) =>
          err = "NoRowsWritten"

\* two sources of whitespace only were read and the run failed on zero rows
ZeroRowsWitness ==
    /\ err = "NoRowsWritten"
    /\ Len(sources) = 2
    /\ bytes_read >= 2

\* C12: the files are read in the order of the sources and their rows are
\* pushed in file order; the values written are at every point a prefix of
\* the rows pushed, and while nothing has failed the values written followed
\* by the rows pending are the rows pushed.
RowsInOrder ==
    /\ Len(inputs) \in {idx - 1, idx}
    /\ IsPrefix(Pushed, Flat(inputs))
    /\ pc \in {"sources", "done"} => Pushed = Flat(inputs)
    /\ pc = "lines" => Pushed \o NdjsonRows(reader, 1) = Flat(inputs)
    /\ IsPrefix(ValuesIn(output.batches), Values(Pushed))
    /\ err = "none" =>
          ValuesIn(output.batches) \o Values(writer.pending_rows) = Values(Pushed)

\* a successful run wrote two rows that differ in one batch
RowsInOrderWitness ==
    /\ pc = "done"
    /\ \E k \in 1..Len(output.batches) :
          /\ Len(output.batches[k].column) >= 2
          /\ output.batches[k].column[1] # output.batches[k].column[2]

\* C15: in every state the byte counter is the sum of the byte lengths of
\* the rows in the pending buffer.
CounterMatchesBuffer ==
    writer.pending_bytes = Bytes(writer.pending_rows)

\* the rows of the batches written, as the log has them
RECURSIVE RowsWritten(_)
RowsWritten(l) ==
    IF l = <<>> THEN 0
    ELSE (IF Head(l).op = "write" THEN Len(Head(l).rows) ELSE 0) + RowsWritten(Tail(l))

\* C16: the run total is at every point the number of rows of the batches
\* written so far, also after a flush that failed; it never decreases, and
\* it changes only in a step that writes, by the rows written in that step.
TotalCountsWrittenRows ==
    /\ [](/\ writer.total_rows = RowsWritten(log)
          /\ writer.total_rows = Len(ValuesIn(output.batches)))
    /\ [][/\ writer'.total_rows >= writer.total_rows
          /\ writer'.total_rows # writer.total_rows =>
                /\ Count("write")' = Count("write") + 1
                /\ writer'.total_rows - writer.total_rows
                      = Len(log'[SetMax(At("write")')].rows)]_vars

\* a flush failed after rows had been written: the total is what was written
TotalCountsWitness ==
    /\ err \in FlushErrors
    /\ writer.total_rows >= 2
    /\ Count("flush") >= 2

\* C17: the threshold in force is max(batch_bytes, 1); with batch_bytes 0 or
\* 1 every push flushes at once, every batch holds one row and the buffer is
\* empty after every push that succeeded.
ThresholdAtLeastOne ==
    /\ writer.target_bytes = Max(batch_bytes, 1)
    /\ batch_bytes <= 1 =>
          /\ \A i \in At("push") : i < Len(log) /\ log[i + 1].op = "flush"
          /\ \A i \in At("flush") : Len(log[i].rows) <= 1
          /\ \A k \in 1..Len(output.batches) : Len(output.batches[k].column) = 1
          /\ err = "none" => writer.pending_rows = <<>>

\* with --batch-bytes 0 three rows were written as three batches
ThresholdAtLeastOneWitness ==
    /\ batch_bytes = 0
    /\ err = "none"
    /\ Len(output.batches) = 3

\* the entries a step added to the log
Added == SubSeq(log', Len(log) + 1, Len(log'))

\* C18: a flush of an empty buffer succeeds and calls neither the encoder
\* nor the file writer: it happens only in finish(), followed at most by the
\* close; it leaves the buffer, the counter, the run total and the batches
\* of the output file as they were, and, the writer being unopened, the
\* whole accumulator and the output file.
EmptyFlushIsNoOp ==
    [][(\E i \in 1..Len(Added) : Added[i] = Ev("flush", <<>>)) =>
          /\ \/ Added = <<Ev("finish", <<>>), Ev("flush", <<>>)>>
             \/ Added = <<Ev("finish", <<>>), Ev("flush", <<>>), Ev("close", <<>>)>>
          /\ writer'.pending_rows = writer.pending_rows
          /\ writer'.pending_bytes = writer.pending_bytes
          /\ writer'.total_rows = writer.total_rows
          /\ output'.batches = output.batches
          /\ output'.exists = output.exists
          /\ err' \notin FlushErrors
          /\ ~writer.writer.some => (writer' = writer /\ output' = output)
          /\ writer.writer.some => Len(Added) = 3]_vars

\* finish() right after a flush that the threshold triggered: its flush
\* found the buffer empty and the run succeeded
EmptyFlushWitness ==
    /\ pc = "done"
    /\ \E i \in At("finish") :
          /\ i > 1 /\ log[i - 1].op = "write"
          /\ log[i + 1] = Ev("flush", <<>>)
    /\ \A k \in 1..Len(output.batches) : Len(output.batches[k].column) >= 1

\* the names of the model with a line-delimited extension, whatever the case
LineDelimitedNames == {b_jsonl, B_JSONL, n_NdJson, l_jsonlines, e_ndjson}

\* C13: the format a file is read as is decided by the requested mode and
\* the extension alone: Ndjson and Single are taken as given, Auto gives
\* NDJSON exactly for the line-delimited extensions in any case and SINGLE
\* for every other extension and for none, whatever the file holds.
FormatByModeAndExtension ==
    /\ \A i \in 1..Len(inputs) :
          inputs[i].format =
             IF format = "Ndjson" THEN "Ndjson"
             ELSE IF format = "Single" THEN "Single"
             ELSE IF file_name(sources[i]) \in LineDelimitedNames THEN "Ndjson"
             ELSE "Single"
    /\ pc = "lines" => (Len(inputs) = idx /\ inputs[idx].format = "Ndjson")

\* --format ndjson on a.json: each of its two lines was pushed as a row
FormatOverrideWitness ==
    /\ format = "Ndjson"
    /\ sources = <<<<a_json>>>>
    /\ pc = "done"
    /\ Len(inputs[1].rows) = 2
    /\ Count("push") = 2

\* the files of the model that look like JSON, in the order of their paths
SortedJsonLike ==
    <<<<B_JSON>>, <<a_json>>, <<b_jsonl>>, <<d_noext>>, <<s_json, e_ndjson>>>>

\* C14: for a directory, collect_sources returns, sorted by path and without
\* duplicate, exactly the regular files (of the directory itself, or of the
\* whole tree when recursive) whose extension is JSON-like in any case or
\* that have none; {a.json, b.jsonl, c.txt} gives [a.json, b.jsonl].
EnumeratorSortsAndFilters ==
    (pc = "main" /\ input.kind = "dir") =>
       LET want == {e.path : e \in {f \in input.entries :
                       f.type = "file" /\ (recursive \/ Len(f.path) = 1)}}
       IN /\ sources = SelectSeq(SortedJsonLike, LAMBDA p : p \in want)
          /\ \A i, j \in 1..Len(sources) : i # j => sources[i] # sources[j]
          /\ (/\ ~recursive
              /\ input.entries = {File(<<a_json>>), File(<<b_jsonl>>), File(<<c_txt>>)})
                => sources = <<<<a_json>>, <<b_jsonl>>>>

\* a recursive walk of the full tree: five sources, c.txt and the directory
\* s.json left out
EnumeratorWitness ==
    /\ pc = "main"
    /\ recursive
    /\ File(<<c_txt>>) \in input.entries
    /\ Dir(<<s_json>>) \in input.entries
    /\ Len(sources) = 5

\* C19: the output file is created only after the encoder accepted the
\* batch: when the encoder rejects the first non-empty batch of the run, no
\* file is created, the file that was at the output path is as it was, the
\* writer is unopened and the run total is 0.
EncoderBeforeCreate ==
    /\ \A i \in At("create") :
          i > 1 /\ log[i - 1].op = "encode" /\ ConvertOk(log[i - 1].rows)
    /\ At("create") = {} => output = OldFile
    /\ (err = "EncodingFailure" /\ Count("encode") = 1) =>
          /\ At("create") = {}
          /\ output = OldFile
          /\ ~writer.writer.some
          /\ writer.total_rows = 0

\* the first batch was rejected and the earlier file is still there
EncoderBeforeCreateWitness ==
    /\ err = "EncodingFailure"
    /\ Count("encode") = 1
    /\ output.exists /\ output.footer
    /\ Len(output.batches) = 1

====
